---- MODULE Spec2Model ----
(***************************************************************************)
(* A model of accelerator-core-js: the session state (sdk-wrapper/state.ts), *)
(* the call orchestrator (class Communication) and the event bus and       *)
(* session wiring of class AccCore.                                        *)
(*                                                                         *)
(* JavaScript is single threaded: every action below is one macrotask (an  *)
(* API call, a provider event or a provider completion callback) together  *)
(* with the promise reactions (microtasks) it schedules.                   *)
(*                                                                         *)
(* Conventions.  A handle (publisher or subscriber) is a record            *)
(* [id, sid, kind, nt]: its id, the id of its stream, its stream's         *)
(* videoType, and whether a network test created it.  NoId stands for      *)
(* JavaScript's undefined where an id is expected.  The registries and the *)
(* two maps of State start empty (the state the orchestrator needs to run  *)
(* at all, spec section 3).                                                *)
(***************************************************************************)
EXTENDS Integers, FiniteSets, Sequences, TLC

\* ------------------------------------------------------------ bounds
MaxStreams == 2
MaxHandles == 2
MaxCalls == 1
MaxLimit == 1
MaxOps == 5
MaxRejoin == 2

\* ------------------------------------------------------------ values
Kinds == {"camera", "screen"}
StreamIds == 1 .. MaxStreams
HandleIds == 1 .. MaxHandles
NoId == 0
\* null / undefined where a number is expected (connectionLimit)
Null == -1
\* options.connectionLimit as given by the caller: absent, or a number
LimitOptions == {Null} \cup (0 .. MaxLimit)
\* the id of the publisher object the n-th startCall creates, and the id
\* of the stream a local publisher publishes
PubId(n) == 50 + n
PubStreamId(h) == 100 + h

\* nt marks a subscriber created by a network-test subscribe
Handle(id, sid, kind) == [id |-> id, sid |-> sid, kind |-> kind, nt |-> FALSE]

\* the values found in State.streams: a stream object, or (after all())
\* a handle id copied from streamMap
StreamVal(kind) == [t |-> "stream", kind |-> kind, h |-> NoId]
IdVal(h) == [t |-> "id", kind |-> "none", h |-> h]

\* the event bus as its users see it: an event of the catalog, an event
\* nobody registered, two callbacks, and the absent argument (undefined)
BusEvents == {"connected", "custom"}
Callbacks == {"cb1", "cb2"}
None == "none"

EmptyMap == [k \in {} |-> NoId]
MapPut(f, k, v) == [x \in (DOMAIN f) \cup {k} |-> IF x = k THEN v ELSE f[x]]
MapDel(f, k) == [x \in (DOMAIN f) \ {k} |-> f[x]]
MapGet(f, k) == IF k \in DOMAIN f THEN f[k] ELSE NoId

VARIABLES
  state,           \* the State object: publishers, subscribers, streams, streamMap
  active,          \* Communication.active
  connectionLimit, \* Communication.connectionLimit
  autoSubscribe,   \* Communication.autoSubscribe
  subscribeOnly,   \* Communication.subscribeOnly
  eventListeners,  \* AccCore.eventListeners: event name -> set of callbacks
  remote,          \* provider side: per remote stream id "new", its kind while live, "gone"
  pendingSubs,     \* session.subscribe calls issued and not yet completed
  call,            \* the startCall in progress
  nextId,          \* next fresh handle id
  callsLeft,       \* number of startCall invocations left to explore
  last,            \* what the last handler did (observable outcome)
  hist             \* when recorded (hist.on), per remote stream since it was
                   \* added: the number of subscribe(stream) invocations
                   \* (3 for more) and the subscriber of the first success;
                   \* hist.bus is the sequence of calls made on the event bus

vars == <<state, active, connectionLimit, autoSubscribe, subscribeOnly,
          eventListeners, remote, pendingSubs, call, nextId, callsLeft, last, hist>>

\* ------------------------------------------------- StreamCollection
EmptyCollection == [camera |-> {}, screen |-> {}]

CollAddStream(c, type, h) ==
  [c EXCEPT ![type] = {x \in @ : x.id # h.id} \cup {h}]

CollRemoveStream(c, type, h) ==
  [c EXCEPT ![type] = {x \in @ : x.id # h.id}]

CollReset(c) == EmptyCollection

\* collection[type][id]: the set holding the handle, empty for undefined
CollGet(c, type, id) == {x \in c[type] : x.id = id}

\* ------------------------------------------------------------ State
EmptyState ==
  [publishers |-> EmptyCollection, subscribers |-> EmptyCollection,
   streams |-> EmptyMap, streamsExtra |-> FALSE, streamMap |-> EmptyMap,
   credentials |-> "credentials", session |-> "session"]

addPublisher(st, type, publisher) ==
  [st EXCEPT !.publishers = CollAddStream(@, type, publisher),
             !.streamMap = MapPut(@, publisher.sid, publisher.id)]

removePublisher(st, type, publisher) ==
  [st EXCEPT !.publishers = CollRemoveStream(@, type, publisher)]

removeAllPublishers(st) == [st EXCEPT !.publishers = CollReset(@)]

addSubscriber(st, subscriber) ==
  [st EXCEPT !.subscribers = CollAddStream(@, subscriber.kind, subscriber),
             !.streamMap = MapPut(@, subscriber.sid, subscriber.id)]

\* removeSubscriber(subscriber) reads subscriber.stream.videoType first: it
\* throws a TypeError when its argument has no stream (undefined, or a
\* string).  arg is the set holding the handle passed, empty when the
\* argument is not a handle.
removeSubscriber(st, arg) ==
  IF arg = {}
    THEN [st |-> st, threw |-> TRUE]
    ELSE LET s == CHOOSE x \in arg : TRUE
         IN [st |-> [st EXCEPT !.subscribers = CollRemoveStream(@, s.kind, s)],
             threw |-> FALSE]

addStream(st, sid, kind) ==
  [st EXCEPT !.streams = MapPut(@, sid, StreamVal(kind))]

\* Variants of the operations, each wrong in one place: a property that
\* tells an operation from its variant says something about the operation.
\* removeStream that leaves the mapped subscriber in the registry
removeStream_KeepsSubscriber(st, sid, kind) ==
  [st |-> [st EXCEPT !.streamMap = MapDel(@, sid), !.streams = MapDel(@, sid)],
   threw |-> CollGet(st.subscribers, kind, MapGet(st.streamMap, sid)) = {}]

\* all() that builds its result in a fresh object and leaves streams alone
all_Fresh(st) == st

removeStream(st, sid, kind) ==
  LET subscriberId == MapGet(st.streamMap, sid)
      st1 == [st EXCEPT !.streamMap = MapDel(@, sid),
                        !.streams = MapDel(@, sid)]
  IN removeSubscriber(st1, CollGet(st1.subscribers, kind, subscriberId))

\* all() is Object.assign(this.streams, this.streamMap, this.connected,
\* this.getPubSub()): the first argument is the target, so every streamMap
\* entry and the keys publishers, subscribers and meta are copied INTO
\* this.streams, which is returned.
all(st) ==
  [st EXCEPT !.streams = [k \in (DOMAIN st.streams) \cup (DOMAIN st.streamMap) |->
                            IF k \in DOMAIN st.streamMap
                              THEN IdVal(st.streamMap[k]) ELSE st.streams[k]],
             !.streamsExtra = TRUE]

\* the reset that clears every field of the State
reset_Everything(st) ==
  [EmptyState EXCEPT !.credentials = None, !.session = None]

\* reset() empties the two registries, streamMap and streams; credentials
\* and session are not assigned
reset(st) ==
  [st EXCEPT !.publishers = CollReset(@), !.subscribers = CollReset(@),
             !.streamMap = EmptyMap, !.streams = EmptyMap,
             !.streamsExtra = FALSE]

\* the values of this.streams that are stream objects of kind camera
CameraStreams(st) ==
  {k \in DOMAIN st.streams :
     st.streams[k].t = "stream" /\ st.streams[k].kind = "camera"}


\* ------------------------------------------------------- the event bus
\* AccCore.registerEvents for one name
\* the registration that gives the name a new Set whether or not it has one
registerEvent_Resets(listeners, event) == MapPut(listeners, event, {})

registerEvent(listeners, event) ==
  IF event \in DOMAIN listeners THEN listeners ELSE MapPut(listeners, event, {})

\* AccCore.registerEvents(events) on a list of names (a single name is
\* wrapped into a list of one)
RECURSIVE registerEvents(_, _)
registerEvents(listeners, events) ==
  IF events = << >>
    THEN listeners
    ELSE registerEvents(registerEvent(listeners, Head(events)), Tail(events))

\* triggerEvent that does not register the unknown name
triggerEvent_NoRegister(listeners, event) ==
  IF event \notin DOMAIN listeners
    THEN [listeners |-> listeners, invoked |-> {}]
    ELSE [listeners |-> listeners, invoked |-> listeners[event]]

\* AccCore.triggerEvent: the registry afterwards and the callbacks invoked
triggerEvent(listeners, event) ==
  IF event \notin DOMAIN listeners
    THEN [listeners |-> registerEvent(listeners, event), invoked |-> {}]
    ELSE [listeners |-> listeners, invoked |-> listeners[event]]

\* on that registers an unknown name and attaches the callback to it
on_Registers(listeners, event, callback) ==
  [registerEvent(listeners, event) EXCEPT ![event] = @ \cup {callback}]

\* AccCore.on(event, callback) with an event name
on(listeners, event, callback) ==
  IF event \notin DOMAIN listeners
    THEN listeners
    ELSE [listeners EXCEPT ![event] = @ \cup {callback}]

\* off whose full clear forgets the event names with the callbacks
off_Unregisters(listeners, event, callback) ==
  IF event = None /\ callback = None
    THEN EmptyMap
    ELSE IF event \notin DOMAIN listeners
      THEN listeners
      ELSE [listeners EXCEPT ![event] = @ \ {callback}]

\* off that clears the event's callbacks when the callback is left out
off_ClearsEvent(listeners, event, callback) ==
  IF event = None /\ callback = None
    THEN [e \in DOMAIN listeners |-> {}]
    ELSE IF event \notin DOMAIN listeners
      THEN listeners
      ELSE [listeners EXCEPT ![event] = IF callback = None THEN {} ELSE @ \ {callback}]

\* off that forgets to delete the callback
off_Keeps(listeners, event, callback) ==
  IF event = None /\ callback = None
    THEN [e \in DOMAIN listeners |-> {}]
    ELSE listeners

\* AccCore.off(event, callback); None stands for an argument left out
off(listeners, event, callback) ==
  IF event = None /\ callback = None
    THEN [e \in DOMAIN listeners |-> {}]
    ELSE IF event \notin DOMAIN listeners
      THEN listeners
      ELSE [listeners EXCEPT ![event] = @ \ {callback}]

\* the calls callback(data, event) one triggerEvent makes, each with the
\* number of times it is made
invocations(listeners, event, data) ==
  [c \in {[cb |-> x, data |-> data, event |-> event] :
            x \in triggerEvent(listeners, event).invoked} |-> 1]

\* the listeners present once AccCore and Communication are constructed:
\* the session events wrapped by AccCore.createEventListeners, on which
\* Communication.createEventListeners attaches its two callbacks
CoreListeners ==
  [e \in {"streamCreated", "streamDestroyed"} |->
     IF e = "streamCreated" THEN {"onStreamCreated"} ELSE {"onStreamDestroyed"}]

\* the same with the catalog event the bus users listen to
BusListeners == MapPut(CoreListeners, "connected", {})

\* ------------------------------------------------------ Communication
\* validateOptions
validLimit(opt) == IF opt = Null \/ opt = 0 THEN Null ELSE opt
validAutoSubscribe(opt) == IF opt THEN opt ELSE TRUE
validSubscribeOnly(opt) == IF opt THEN opt ELSE FALSE

\* Communication.triggerEvent is a prototype method that reads this.core.
\* Every caller in the class takes it out of the instance first
\* (const { triggerEvent } = this) and calls it bare, so `this` is
\* undefined in the call and reading this.core throws a TypeError before
\* anything reaches the bus.
commTriggerEvent(event) == [threw |-> TRUE, events |-> << >>]

\* ableToJoin admitting a call with as many camera streams as the limit
ableToJoin_AtLimit(limit, st) ==
  IF limit = Null THEN TRUE ELSE Cardinality(CameraStreams(st)) <= limit

ableToJoin(limit, st) ==
  IF limit = Null THEN TRUE ELSE Cardinality(CameraStreams(st)) < limit

\* subscribe that never takes the already-subscribed path
subscribe_Always(w, sid, kind, networkTest) ==
  [state |-> w.state,
   pendingSubs |-> w.pendingSubs \cup
      {[Handle(w.nextId, sid, kind) EXCEPT !.nt = networkTest]},
   nextId |-> w.nextId + 1,
   result |-> "pending", issued |-> {w.nextId}, value |-> NoId]

\* The synchronous part of subscribe(stream, {}, networkTest) on a stream
\* object.  w is [state, pendingSubs, nextId]; the result adds how the
\* returned promise stands: resolved with value (a handle id, NoId for
\* undefined) or pending on the session.subscribe call just issued.
subscribe(w, sid, kind, networkTest) ==
  IF MapGet(w.state.streamMap, sid) # NoId /\ ~networkTest
    THEN LET st1 == all(w.state)
             found == CollGet(st1.subscribers, kind, st1.streamMap[sid])
         IN [state |-> st1, pendingSubs |-> w.pendingSubs, nextId |-> w.nextId,
             result |-> "resolved", issued |-> {},
             value |-> IF found = {} THEN NoId ELSE (CHOOSE x \in found : TRUE).id]
    ELSE [state |-> w.state,
          pendingSubs |-> w.pendingSubs \cup
             {[Handle(w.nextId, sid, kind) EXCEPT !.nt = networkTest]},
          nextId |-> w.nextId + 1,
          result |-> "pending", issued |-> {w.nextId}, value |-> NoId]

\* whether that call would issue session.subscribe (and need a fresh handle)
wouldIssue(st, sid, networkTest) == MapGet(st.streamMap, sid) = NoId \/ networkTest

\* unsubscribe(subscriber) calls state.removeSubscriber(type, subscriber);
\* State.removeSubscriber has the single parameter `subscriber`, which
\* therefore receives the string `type`, not the handle.
unsubscribe(st, subscriber) ==
  LET r == removeSubscriber(st, {})
  IN IF r.threw
       THEN [st |-> st, rejected |-> TRUE, unsubscribed |-> {}]
       ELSE [st |-> r.st, rejected |-> FALSE, unsubscribed |-> {subscriber.id}]

RECURSIVE unsubscribeAll(_, _)
unsubscribeAll(st, subs) ==
  IF subs = {}
    THEN [st |-> st, unsubscribed |-> {}]
    ELSE LET s == CHOOSE x \in subs : \A y \in subs : x.id <= y.id
             r == unsubscribe(st, s)
             rest == unsubscribeAll(r.st, subs \ {s})
         IN [st |-> rest.st, unsubscribed |-> r.unsubscribed \cup rest.unsubscribed]

\* onStreamDestroyed, the callback of the bus event streamDestroyed
onStreamDestroyed(st, sid, kind) ==
  LET r == removeStream(st, sid, kind)
      e1 == IF kind = "screen" THEN commTriggerEvent("endViewingSharedScreen")
                               ELSE [threw |-> FALSE, events |-> << >>]
      e2 == commTriggerEvent(IF kind = "screen" THEN "unsubscribeFromScreen"
                                                ELSE "unsubscribeFromCamera")
  IN IF r.threw THEN [st |-> r.st, threw |-> TRUE, events |-> << >>]
     ELSE IF e1.threw THEN [st |-> r.st, threw |-> TRUE, events |-> e1.events]
     ELSE [st |-> r.st, threw |-> e2.threw, events |-> e1.events \o e2.events]

\* the startCall in progress: where it stands, the keys of streams it
\* captured (initialStreamIds) and the batch promises it still waits for.
\* Once it is settled nothing reads the rest of it again.
\* rejoin marks a call that resolved and was ended by endCall, and then the
\* startCall invoked after such a call
NoCall ==
  [pc |-> "idle", initialIds |-> {}, initialExtra |-> FALSE, waiting |-> {},
   publisher |-> NoId, rejoin |-> FALSE]
Settled(pc) == [NoCall EXCEPT !.pc = pc]

\* what a callback finds in the State about stream sid, and that for each
\* of the events emitted
Seen(st, sid) ==
  [stream |-> sid \in DOMAIN st.streams,
   mapped |-> MapGet(st.streamMap, sid),
   subscribers |-> {x.id : x \in {y \in st.subscribers.camera \cup st.subscribers.screen :
                                   y.sid = sid}}]
SeenBy(events, st, sid) == [i \in 1 .. Len(events) |-> Seen(st, sid)]

\* the session event wrapper that triggers the event before the mutation
observed_Before(before, after, sid) == Seen(before, sid)

\* AccCore's session event wrapper mutates the State and then triggers the
\* event: its callbacks find the State as the mutation left it
observed(before, after, sid) == Seen(after, sid)

\* the completion callback that registers the subscriber whatever the
\* provider reported
subscribeCallback_AlwaysAdds(st, p, ok) ==
  [st |-> all(addSubscriber(st, p)), threw |-> FALSE, events |-> << >>,
   seen |-> << >>, result |-> IF ok THEN "resolved" ELSE "rejected"]

\* the completion callback of session.subscribe for the call that created
\* handle p: the State afterwards, what was emitted, and how subscribe's
\* promise stands (pending when the callback threw before settling it)
subscribeCallback(st, p, ok) ==
  LET st1 == all(addSubscriber(st, p))
      e1 == commTriggerEvent(IF p.kind = "screen" THEN "subscribeToScreen"
                                                   ELSE "subscribeToCamera")
      e2 == IF p.kind = "screen" /\ ~e1.threw
              THEN commTriggerEvent("startViewingSharedScreen")
              ELSE [threw |-> e1.threw, events |-> << >>]
  IN IF ~ok
       THEN [st |-> st, threw |-> FALSE, events |-> << >>, seen |-> << >>,
             result |-> "rejected"]
       ELSE [st |-> st1, threw |-> e2.threw, events |-> e1.events \o e2.events,
             seen |-> SeenBy(e1.events \o e2.events, st1, p.sid),
             result |-> IF e2.threw THEN "pending" ELSE "resolved"]

\* what startCall resolves with: Object.assign({}, state.getPubSub(),
\* { publisher }), the registries as they stand and the publisher
NoSnapshot == [publishers |-> {}, subscribers |-> {}, publisher |-> NoId]
Snapshot(st, publisher) ==
  [publishers |-> {x.id : x \in st.publishers.camera \cup st.publishers.screen},
   subscribers |-> {x.id : x \in st.subscribers.camera \cup st.subscribers.screen},
   publisher |-> publisher]

Outcome(op, sid) ==
  [op |-> op, sid |-> sid, threw |-> FALSE, events |-> << >>,
   result |-> "none", value |-> NoId, issued |-> {},
   unpublished |-> {}, unsubscribed |-> {},
   settled |-> "none", snapshot |-> NoSnapshot,
   error |-> FALSE, seen |-> << >>, targets |-> {}]

\* how the step settled startCall's promise, for the Outcome
SettledAs(pc, st, publisher) ==
  IF pc \in {"resolved", "rejected"}
    THEN [settled |-> pc,
          snapshot |-> IF pc = "resolved" THEN Snapshot(st, publisher) ELSE NoSnapshot]
    ELSE [settled |-> "none", snapshot |-> NoSnapshot]

\* the history of subscribe(stream) per stream (an observer, not program state)
NoHist == [calls |-> 0, first |-> NoId]
invoked(h, sids) ==
  IF ~h.on THEN h
  ELSE [h EXCEPT !.of = [s \in StreamIds |->
          IF s \in sids THEN [@[s] EXCEPT !.calls = IF @ < 3 THEN @ + 1 ELSE @]
                        ELSE @[s]]]
succeeded(h, sub) ==
  IF h.on /\ sub.sid \in StreamIds /\ h.of[sub.sid].first = NoId
    THEN [h EXCEPT !.of[sub.sid].first = sub.id] ELSE h
forgotten(h, s) == [h EXCEPT !.of[s] = NoHist]

\* -------------------------------------------------------------- Init
\* The configurations explored: the defaults, and each option in turn set
\* to each of its other values.
DefaultOptions ==
  [connectionLimit |-> Null, autoSubscribe |-> TRUE, subscribeOnly |-> FALSE]

OptionSets ==
  {[DefaultOptions EXCEPT !.connectionLimit = l] : l \in LimitOptions}
    \cup {[DefaultOptions EXCEPT !.autoSubscribe = FALSE],
          [DefaultOptions EXCEPT !.subscribeOnly = TRUE]}

\* new Communication(options) on a fresh State, for some options of opts,
\* with `budget` startCall invocations to explore.  The object keeps the
\* validated fields, not the options.
Constructed(opts, budget, recorded, listeners) ==
  /\ \E options \in opts :
       /\ connectionLimit = validLimit(options.connectionLimit)
       /\ autoSubscribe = validAutoSubscribe(options.autoSubscribe)
       /\ subscribeOnly = validSubscribeOnly(options.subscribeOnly)
  /\ callsLeft = budget
  /\ state = EmptyState
  /\ active = FALSE
  /\ eventListeners = listeners
  /\ remote = [s \in StreamIds |-> "new"]
  /\ pendingSubs = {}
  /\ call = NoCall
  /\ nextId = 1
  /\ last = Outcome("init", NoId)
  /\ hist = [on |-> recorded, of |-> [s \in StreamIds |-> NoHist], bus |-> << >>]

Init == Constructed(OptionSets, MaxCalls, FALSE, CoreListeners)

config == <<connectionLimit, autoSubscribe, subscribeOnly>>

\* ------------------------------------------------- provider events
\* The session's streamCreated event: AccCore's wrapper adds the stream to
\* State and triggers the bus event, whose callback onStreamCreated
\* subscribes when the call is active.
\* the listener that subscribes whether or not a call is active
onStreamCreated_IgnoresActive(act, auto) == auto

\* Communication.onStreamCreated: whether the listener calls subscribe(stream)
onStreamCreated(act, auto) == act /\ auto

StreamCreated(s, k) ==
  /\ remote[s] = "new"
  /\ LET st1 == addStream(state, s, k)
         t == triggerEvent(eventListeners, "streamCreated")
         auto == "onStreamCreated" \in t.invoked
                   /\ onStreamCreated(active, autoSubscribe)
         w == [state |-> st1, pendingSubs |-> pendingSubs, nextId |-> nextId]
         r == subscribe(w, s, k, FALSE)
     IN /\ auto /\ wouldIssue(st1, s, FALSE) => nextId <= MaxHandles
        /\ remote' = [remote EXCEPT ![s] = k]
        /\ eventListeners' = t.listeners
        /\ IF auto
             THEN /\ state' = r.state
                  /\ pendingSubs' = r.pendingSubs
                  /\ nextId' = r.nextId
                  /\ last' = [Outcome("streamCreated", s) EXCEPT
                                !.events = <<"streamCreated">>,
                                !.seen = <<observed(state, st1, s)>>,
                                !.result = r.result, !.value = r.value,
                                !.issued = r.issued]
             ELSE /\ state' = st1
                  /\ UNCHANGED <<pendingSubs, nextId>>
                  /\ last' = [Outcome("streamCreated", s) EXCEPT
                                !.events = <<"streamCreated">>,
                                !.seen = <<observed(state, st1, s)>>]
        /\ hist' = IF auto THEN invoked(hist, {s}) ELSE hist
  /\ UNCHANGED <<active, config, call, callsLeft>>

\* The session's streamDestroyed event: AccCore's wrapper removes the
\* stream from State and then triggers the bus event, whose callback
\* onStreamDestroyed removes it again.  An exception ends the handler.
StreamDestroyed(s) ==
  /\ remote[s] \in Kinds
  /\ LET k == remote[s]
         r1 == removeStream(state, s, k)
         t == triggerEvent(eventListeners, "streamDestroyed")
         r2 == onStreamDestroyed(r1.st, s, k)
     IN /\ remote' = [remote EXCEPT ![s] = "gone"]
        /\ hist' = forgotten(hist, s)
        /\ IF r1.threw
             THEN /\ state' = r1.st
                  /\ last' = [Outcome("streamDestroyed", s) EXCEPT !.threw = TRUE]
                  /\ UNCHANGED eventListeners
             ELSE /\ eventListeners' = t.listeners
                  /\ IF "onStreamDestroyed" \in t.invoked
                       THEN /\ state' = r2.st
                            /\ last' = [Outcome("streamDestroyed", s) EXCEPT
                                          !.threw = r2.threw,
                                          !.events = <<"streamDestroyed">> \o r2.events,
                                          !.seen = <<observed(state, r1.st, s)>> \o
                                                   SeenBy(r2.events, r2.st, s)]
                       ELSE /\ state' = r1.st
                            /\ last' = [Outcome("streamDestroyed", s) EXCEPT
                                          !.events = <<"streamDestroyed">>,
                                          !.seen = <<observed(state, r1.st, s)>>]
  /\ UNCHANGED <<active, config, pendingSubs, call, nextId, callsLeft>>


\* ------------------------------------------------------- subscribe
\* subscribe(stream, {}, networkTest) called by the application on a live
\* remote stream
\* subscribe(publisher.stream) called by the application on the stream of
\* its own registered publisher, not as a network test
SubscribeOwn(pub) ==
  /\ pub \in state.publishers.camera \cup state.publishers.screen
  /\ wouldIssue(state, pub.sid, FALSE) => nextId <= MaxHandles
  /\ LET w == [state |-> state, pendingSubs |-> pendingSubs, nextId |-> nextId]
         r == subscribe(w, pub.sid, pub.kind, FALSE)
     IN /\ state' = r.state
        /\ pendingSubs' = r.pendingSubs
        /\ nextId' = r.nextId
        /\ last' = [Outcome("subscribeOwn", pub.sid)
                      EXCEPT !.result = r.result, !.value = r.value,
                             !.issued = r.issued]
  /\ UNCHANGED <<active, config, eventListeners, remote, call, callsLeft, hist>>

Subscribe(s, networkTest) ==
  /\ remote[s] \in Kinds
  /\ wouldIssue(state, s, networkTest) => nextId <= MaxHandles
  /\ LET w == [state |-> state, pendingSubs |-> pendingSubs, nextId |-> nextId]
         r == subscribe(w, s, remote[s], networkTest)
     IN /\ state' = r.state
        /\ pendingSubs' = r.pendingSubs
        /\ nextId' = r.nextId
        /\ last' = [Outcome(IF networkTest THEN "networkTest" ELSE "subscribe", s)
                      EXCEPT !.result = r.result, !.value = r.value,
                             !.issued = r.issued]
  /\ hist' = invoked(hist, {s})
  /\ UNCHANGED <<active, config, eventListeners, remote, call, callsLeft>>

\* the batch whose failure rejects startCall
settleBatch_Rejects(rejected, waiting) ==
  IF rejected THEN [pc |-> "rejected", events |-> << >>]
  ELSE IF waiting # {} THEN [pc |-> "subscribing", events |-> << >>]
  ELSE [pc |-> "resolved", events |-> << >>]

\* Promise.all(initialSubscriptions()).then(onSubscribeToAll).catch(onError)
\* once the batch is decided: a rejection runs onError, which resolves
\* startCall without an event; with every promise resolved
\* onSubscribeToAll triggers "startCall", and an exception thrown there is
\* caught by the same catch(onError).
settleBatch(rejected, waiting) ==
  LET t == commTriggerEvent("startCall")
  IN IF rejected THEN [pc |-> "resolved", events |-> << >>]
     ELSE IF waiting # {} THEN [pc |-> "subscribing", events |-> << >>]
     ELSE IF t.threw THEN [pc |-> "resolved", events |-> t.events]
     ELSE [pc |-> "resolved", events |-> <<"startCall">>]

\* The provider's completion callback of a session.subscribe call.  The
\* provider may complete a call for a stream that has gone meanwhile either
\* way.
SubscribeComplete(p, ok) ==
  /\ p \in pendingSubs
  /\ pendingSubs' = pendingSubs \ {p}
  /\ hist' = IF ok THEN succeeded(hist, p) ELSE hist
  /\ LET inBatch == call.pc = "subscribing" /\ p.id \in call.waiting
         cb == subscribeCallback(state, p, ok)
         left == call.waiting \ {p.id}
         done == settleBatch(cb.result = "rejected", left)
         sa == SettledAs(done.pc, cb.st, call.publisher)
         settles == inBatch /\ cb.result # "pending"
     IN /\ state' = cb.st
        /\ last' = [Outcome("subscribeComplete", p.sid) EXCEPT
                      !.error = ~ok,
                      !.threw = cb.threw,
                      !.events = cb.events \o (IF settles THEN done.events ELSE << >>),
                      !.seen = cb.seen,
                      !.result = cb.result,
                      !.value = p.id,
                      !.settled = IF settles THEN sa.settled ELSE "none",
                      !.snapshot = IF settles THEN sa.snapshot ELSE NoSnapshot]
        /\ call' = IF ~settles THEN call
                   ELSE IF done.pc = "subscribing"
                     THEN [call EXCEPT !.waiting = left]
                     ELSE Settled(done.pc)
  /\ UNCHANGED <<active, config, eventListeners, remote, nextId, callsLeft>>

\* unsubscribe(subscriber) called by the application on a tracked subscriber
Unsubscribe(sub) ==
  /\ sub \in state.subscribers.camera \cup state.subscribers.screen
  /\ LET r == unsubscribe(state, sub)
     IN /\ state' = r.st
        /\ last' = [Outcome("unsubscribe", sub.sid) EXCEPT
                      !.threw = r.rejected,
                      !.result = IF r.rejected THEN "rejected" ELSE "resolved",
                      !.value = sub.id,
                      !.unsubscribed = r.unsubscribed]
  /\ UNCHANGED <<active, config, eventListeners, remote, pendingSubs, call,
                 nextId, callsLeft, hist>>

\* -------------------------------------------------------- startCall
\* initialSubscriptions(): subscribe(streams[id]) for every captured key,
\* in key order.  A key whose value is no longer there makes subscribe
\* throw on its argument; a value that is not a stream object (a handle id
\* or a registry copied in by all()) is refused by the provider: both are
\* rejected promises.
RECURSIVE initialSubscriptions(_, _)
initialSubscriptions(w, ids) ==
  IF ids = {}
    THEN [state |-> w.state, pendingSubs |-> w.pendingSubs, nextId |-> w.nextId,
          rejected |-> FALSE, waiting |-> {}]
    ELSE LET id == CHOOSE x \in ids : \A y \in ids : x <= y
             isStream == id \in DOMAIN w.state.streams
                           /\ w.state.streams[id].t = "stream"
             r == subscribe(w, id, w.state.streams[id].kind, FALSE)
             w1 == IF isStream
                     THEN [state |-> r.state, pendingSubs |-> r.pendingSubs,
                           nextId |-> r.nextId]
                     ELSE w
             rest == initialSubscriptions(w1, ids \ {id})
         IN [rest EXCEPT !.rejected = @ \/ ~isStream,
                         !.waiting = @ \cup (IF isStream THEN r.issued ELSE {})]

\* the batch that maps over the keys streams has when publish resolves
batchIds_Current(c, st) == DOMAIN st.streams

\* the ids initialSubscriptions maps over: initialStreamIds, the keys of
\* streams captured when startCall was invoked
batchIds(c, st) == c.initialIds

\* subscribeToInitialStreams(publisher), the reaction to publish resolving
subscribeToInitialStreams(w, c, auto) ==
  LET r == IF auto
             THEN initialSubscriptions(w, batchIds(c, w.state))
             ELSE [state |-> w.state, pendingSubs |-> w.pendingSubs,
                   nextId |-> w.nextId, rejected |-> FALSE, waiting |-> {}]
      rejected == r.rejected \/ (auto /\ c.initialExtra)
      done == settleBatch(rejected, r.waiting)
  IN [state |-> r.state, pendingSubs |-> r.pendingSubs, nextId |-> r.nextId,
      events |-> done.events,
      called |-> IF auto THEN {id \in batchIds(c, w.state) \cap DOMAIN w.state.streams :
                                 w.state.streams[id].t = "stream"}
                         ELSE {},
      targets |-> IF auto THEN batchIds(c, w.state) ELSE {},
      call |-> IF done.pc = "subscribing"
                 THEN [c EXCEPT !.pc = done.pc, !.waiting = r.waiting]
                 ELSE Settled(done.pc)]

\* the publish that goes on to create a publisher whatever the configuration
publish_Always(only, st) ==
  [result |-> "pending", value |-> NoId, creating |-> TRUE, state |-> st]

\* publish(publisherProperties) up to its return: how the returned promise
\* stands, what it resolved with, whether createPublisher was called, and
\* the State it leaves.  Configured subscribeOnly it returns
\* Promise.resolve(); otherwise the promise waits for the provider.
publish(only, st) ==
  IF only
    THEN [result |-> "resolved", value |-> NoId, creating |-> FALSE, state |-> st]
    ELSE [result |-> "pending", value |-> NoId, creating |-> TRUE, state |-> st]

\* startCall(publisherProperties).  The model follows the most recent call:
\* a new call takes the place of one that is still waiting for its batch.
StartCall ==
  /\ callsLeft > 0
  /\ call.pc \notin {"creating", "publishing"}
  /\ callsLeft' = callsLeft - 1
  /\ active' = TRUE
  /\ LET c == [NoCall EXCEPT !.initialIds = DOMAIN state.streams,
                             !.initialExtra = state.streamsExtra,
                             !.rejoin = (call.pc = "resolved" /\ call.rejoin
                                           /\ ~active)]
         t == commTriggerEvent("error")
         pub == publish(subscribeOnly, state)
         w == [state |-> pub.state, pendingSubs |-> pendingSubs, nextId |-> nextId]
         b == subscribeToInitialStreams(w, [c EXCEPT !.publisher = pub.value],
                                        autoSubscribe)
     IN IF ~ableToJoin(connectionLimit, state)
          THEN /\ call' = Settled("rejected")
               /\ last' = [Outcome("startCall", NoId) EXCEPT
                             !.threw = t.threw, !.events = t.events,
                             !.result = "rejected", !.settled = "rejected"]
               /\ UNCHANGED <<state, pendingSubs, nextId, hist>>
          ELSE IF pub.result = "resolved"
          THEN /\ b.nextId <= MaxHandles + 1
               /\ call' = b.call
               /\ state' = b.state
               /\ pendingSubs' = b.pendingSubs
               /\ nextId' = b.nextId
               /\ hist' = invoked(hist, b.called)
               /\ last' = [Outcome("startCall", NoId) EXCEPT
                             !.events = b.events,
                             !.targets = b.targets,
                             !.result = IF b.call.pc = "resolved" THEN "resolved"
                                                                  ELSE "pending",
                             !.settled =
                               SettledAs(b.call.pc, b.state, pub.value).settled,
                             !.snapshot =
                               SettledAs(b.call.pc, b.state, pub.value).snapshot]
          ELSE /\ call' = [c EXCEPT !.pc = "creating"]
               /\ state' = pub.state
               /\ last' = [Outcome("startCall", NoId) EXCEPT !.result = "pending"]
               /\ UNCHANGED <<pendingSubs, nextId, hist>>
  /\ UNCHANGED <<config, eventListeners, remote>>

\* OT.initPublisher's completion callback.  On an error publish's
\* handleError runs: it triggers "error" and then rejects.
CreatePublisherComplete(ok) ==
  /\ call.pc = "creating"
  /\ LET t == commTriggerEvent("error")
     IN IF ok
          THEN /\ call' = [call EXCEPT !.pc = "publishing"]
               /\ last' = [Outcome("createPublisher", NoId) EXCEPT !.result = "pending"]
          ELSE /\ call' = Settled(IF t.threw THEN "hung" ELSE "rejected")
               /\ last' = [Outcome("createPublisher", NoId) EXCEPT
                             !.error = TRUE,
                             !.threw = t.threw, !.events = t.events,
                             !.result = IF t.threw THEN "pending" ELSE "rejected",
                             !.settled = IF t.threw THEN "none" ELSE "rejected"]
  /\ UNCHANGED <<state, active, config, eventListeners, remote, pendingSubs,
                 nextId, callsLeft, hist>>

\* session.publish's completion callback (onPublish), then the reactions
\* of startCall to publish settling
PublishComplete(ok) ==
  /\ call.pc = "publishing"
  /\ LET publisher == Handle(PubId(callsLeft), PubStreamId(PubId(callsLeft)), "camera")
         w == [state |-> addPublisher(state, "camera", publisher),
               pendingSubs |-> pendingSubs, nextId |-> nextId]
         b == subscribeToInitialStreams(w, [call EXCEPT !.publisher = publisher.id],
                                        autoSubscribe)
     IN IF ~ok
          THEN /\ call' = Settled("rejected")
               /\ last' = [Outcome("publish", NoId) EXCEPT
                             !.error = TRUE,
                             !.result = "rejected", !.settled = "rejected"]
               /\ UNCHANGED <<state, pendingSubs, nextId, hist>>
          ELSE /\ b.nextId <= MaxHandles + 1
               /\ call' = b.call
               /\ state' = b.state
               /\ pendingSubs' = b.pendingSubs
               /\ nextId' = b.nextId
               /\ hist' = invoked(hist, b.called)
               /\ last' = [Outcome("publish", NoId) EXCEPT
                             !.events = b.events,
                             !.targets = b.targets,
                             !.value = publisher.id,
                             !.result = IF b.call.pc = "resolved" THEN "resolved"
                                                                  ELSE "pending",
                             !.settled =
                               SettledAs(b.call.pc, b.state, publisher.id).settled,
                             !.snapshot =
                               SettledAs(b.call.pc, b.state, publisher.id).snapshot]
  /\ UNCHANGED <<active, config, eventListeners, remote, callsLeft>>

\* ---------------------------------------------------------- endCall
EndCall ==
  /\ LET pubs == state.publishers.camera \cup state.publishers.screen
         subs == state.subscribers.camera \cup state.subscribers.screen
         r == unsubscribeAll(state, subs)
         t == commTriggerEvent("endCall")
     IN /\ state' = removeAllPublishers(r.st)
        /\ last' = [Outcome("endCall", NoId) EXCEPT
                      !.threw = t.threw, !.events = t.events,
                      !.unpublished = {x.id : x \in pubs},
                      !.unsubscribed = r.unsubscribed]
  /\ active' = FALSE
  /\ call' = IF call.pc = "resolved" THEN [call EXCEPT !.rejoin = TRUE] ELSE call
  /\ UNCHANGED <<config, eventListeners, remote, pendingSubs, nextId,
                 callsLeft, hist>>

\* ------------------------------------------------------- disconnect
\* AccCore.disconnect(): the session is told to disconnect and the State is
\* reset.  The Communication object is not told: active, its pending
\* session.subscribe calls and a startCall in progress stay as they are.
Disconnect ==
  /\ state' = reset(state)
  /\ last' = Outcome("disconnect", NoId)
  /\ UNCHANGED <<active, config, eventListeners, remote, pendingSubs, call,
                 nextId, callsLeft, hist>>

Next ==
  \/ \E s \in StreamIds, k \in Kinds : StreamCreated(s, k)
  \/ \E s \in StreamIds : StreamDestroyed(s)
  \/ \E s \in StreamIds, nt \in BOOLEAN : Subscribe(s, nt)
  \/ \E pub \in state.publishers.camera \cup state.publishers.screen : SubscribeOwn(pub)
  \/ \E p \in pendingSubs, ok \in BOOLEAN : SubscribeComplete(p, ok)
  \/ \E sub \in state.subscribers.camera \cup state.subscribers.screen : Unsubscribe(sub)
  \/ StartCall
  \/ \E ok \in BOOLEAN : CreatePublisherComplete(ok)
  \/ \E ok \in BOOLEAN : PublishComplete(ok)
  \/ EndCall

Spec == Init /\ [][Next]_vars

\* The same program under the default options, with the history of
\* subscribe(stream) recorded.
InitRecorded == Constructed({DefaultOptions}, MaxCalls, TRUE, CoreListeners)
SpecRecorded == InitRecorded /\ [][Next]_vars

\* The program under the default options with the facade's disconnect():
\* every operation above, and the reset of the State at any moment.
NextSession ==
  \/ \E s \in StreamIds, k \in Kinds : StreamCreated(s, k)
  \/ \E s \in StreamIds : StreamDestroyed(s)
  \/ \E s \in StreamIds, nt \in BOOLEAN : Subscribe(s, nt)
  \/ \E pub \in state.publishers.camera \cup state.publishers.screen : SubscribeOwn(pub)
  \/ \E p \in pendingSubs, ok \in BOOLEAN : SubscribeComplete(p, ok)
  \/ \E sub \in state.subscribers.camera \cup state.subscribers.screen : Unsubscribe(sub)
  \/ StartCall
  \/ \E ok \in BOOLEAN : CreatePublisherComplete(ok)
  \/ \E ok \in BOOLEAN : PublishComplete(ok)
  \/ EndCall
  \/ Disconnect

InitSession == Constructed({DefaultOptions}, MaxCalls, FALSE, CoreListeners)
SpecSession == InitSession /\ [][NextSession]_vars

\* The program under the default options with MaxRejoin startCall
\* invocations, a provider that completes every call successfully, and an
\* application that makes no network-test subscribe.
NextRejoin ==
  \/ \E s \in StreamIds, k \in Kinds : StreamCreated(s, k)
  \/ \E s \in StreamIds : StreamDestroyed(s)
  \/ \E s \in StreamIds : Subscribe(s, FALSE)
  \/ \E p \in pendingSubs : SubscribeComplete(p, TRUE)
  \/ \E sub \in state.subscribers.camera \cup state.subscribers.screen : Unsubscribe(sub)
  \/ StartCall
  \/ CreatePublisherComplete(TRUE)
  \/ PublishComplete(TRUE)
  \/ EndCall

InitRejoin == Constructed({DefaultOptions}, MaxRejoin, FALSE, CoreListeners)
SpecRejoin == InitRejoin /\ [][NextRejoin]_vars

\* The same program constructed with the option autoSubscribe: false.
AutoSubscribeOff == [DefaultOptions EXCEPT !.autoSubscribe = FALSE]
InitAutoSubscribeOff == Constructed({AutoSubscribeOff}, MaxCalls, FALSE, CoreListeners)
SpecAutoSubscribeOff == InitAutoSubscribeOff /\ [][Next]_vars


\* ------------------------------------------------ the event bus alone
\* A user of AccCore calling registerEvents, on, off and triggerEvent, at
\* most MaxOps times.  Each call is appended to hist.bus with the callback
\* invocations it made; the data of a triggerEvent is its position there.
BusCall(op, event, cb) ==
  [op |-> op, event |-> event, cb |-> cb, data |-> NoId, calls |-> EmptyMap,
   events |-> << >>]

\* the lists of names registerEvents is called with
EventLists == {<<"custom", "connected">>}

\* what a call on the bus leaves alone, and the sequence with it appended
BusUnchanged ==
  UNCHANGED <<state, active, config, remote, pendingSubs, call, nextId,
              callsLeft, last>>
Logged(record) == [hist EXCEPT !.bus = Append(@, record)]

RegisterEvents(e) ==
  /\ Len(hist.bus) < MaxOps
  /\ eventListeners' = registerEvents(eventListeners, <<e>>)
  /\ hist' = Logged(BusCall("registerEvents", e, None))
  /\ BusUnchanged

RegisterEventList(names) ==
  /\ Len(hist.bus) < MaxOps
  /\ eventListeners' = registerEvents(eventListeners, names)
  /\ hist' = Logged([BusCall("registerEvents", None, None) EXCEPT !.events = names])
  /\ BusUnchanged

On(e, cb) ==
  /\ Len(hist.bus) < MaxOps
  /\ eventListeners' = on(eventListeners, e, cb)
  /\ hist' = Logged(BusCall("on", e, cb))
  /\ BusUnchanged

Off(e, cb) ==
  /\ Len(hist.bus) < MaxOps
  /\ eventListeners' = off(eventListeners, e, cb)
  /\ hist' = Logged(BusCall("off", e, cb))
  /\ BusUnchanged

TriggerEvent(e) ==
  /\ Len(hist.bus) < MaxOps
  /\ LET d == Len(hist.bus) + 1
     IN /\ eventListeners' = triggerEvent(eventListeners, e).listeners
        /\ hist' = Logged([BusCall("triggerEvent", e, None) EXCEPT
                             !.data = d,
                             !.calls = invocations(eventListeners, e, d)])
  /\ BusUnchanged

NextBus ==
  \/ \E e \in BusEvents : RegisterEvents(e)
  \/ \E names \in EventLists : RegisterEventList(names)
  \/ \E e \in BusEvents, cb \in Callbacks : On(e, cb)
  \/ \E e \in BusEvents, cb \in Callbacks \cup {None} : Off(e, cb)
  \/ Off(None, None)
  \/ \E e \in BusEvents : TriggerEvent(e)

InitBus == Constructed({DefaultOptions}, 0, FALSE, BusListeners)
SpecBus == InitBus /\ [][NextBus]_vars


\* -------------------------------------------------------- properties
Subscribers == state.subscribers.camera \cup state.subscribers.screen
Publishers == state.publishers.camera \cup state.publishers.screen

\* C1: the subscriber registry never tracks more than one subscriber
\* handle (network tests aside) for the same network stream id.
C1_OneSubscriberPerStream ==
  \A s \in StreamIds :
    Cardinality({x \in Subscribers : x.sid = s /\ ~x.nt}) <= 1

\* C2: for every stream id at most one session.subscribe call is
\* outstanding at any time.
C2_OneOutstandingSubscribe ==
  \A s \in StreamIds : Cardinality({p \in pendingSubs : p.sid = s}) <= 1

\* C3: the second subscribe(stream) of a stream (not a network test), made
\* after the first one succeeded and with no removeStream in between,
\* resolves with the first one's subscriber, issues no session.subscribe
\* call and leaves exactly one registry entry for the stream.
C3_Case ==
  /\ last.op = "subscribe"
  /\ hist.of[last.sid].calls = 2
  /\ hist.of[last.sid].first # NoId

C3_SecondSubscribeIdempotent ==
  C3_Case =>
    /\ last.result = "resolved"
    /\ last.value = hist.of[last.sid].first
    /\ last.issued = {}
    /\ Cardinality({x \in Subscribers : x.sid = last.sid}) = 1

C3_Witness == C3_Case /\ last.value # NoId


\* C4: with a connection limit L configured, ableToJoin is false exactly
\* when the entries of streams that are camera streams number L or more;
\* with no limit configured (an option of 0 is stored as no limit) it is
\* true.
C4_CameraCount ==
  Cardinality({k \in DOMAIN state.streams : state.streams[k].kind = "camera"})

C4_AbleToJoin ==
  IF connectionLimit = Null
    THEN ableToJoin(connectionLimit, state)
    ELSE ~ableToJoin(connectionLimit, state) <=> C4_CameraCount >= connectionLimit

C4_Witness ==
  /\ connectionLimit # Null
  /\ C4_CameraCount = connectionLimit
  /\ ~ableToJoin(connectionLimit, state)


\* C5: a startCall made while the camera streams number the connection
\* limit or more is rejected with the connection-limit error, the bus
\* event "error" is emitted, publish is never reached and no publisher is
\* added.
C5_Case ==
  /\ last.op = "startCall"
  /\ connectionLimit # Null
  /\ C4_CameraCount >= connectionLimit

C5_StartCallAtLimit ==
  C5_Case =>
    /\ last.result = "rejected"
    /\ ~last.threw
    /\ last.events = <<"error">>
    /\ call.pc = "rejected"
    /\ Publishers = {}

\* C6: endCall passes every tracked publisher to session.unpublish and
\* every tracked subscriber to session.unsubscribe, leaves both registries
\* empty and active false, and emits the bus event "endCall" exactly once.
C6_EndCall ==
  [][last'.op = "endCall" =>
       /\ last'.unpublished = {x.id : x \in Publishers}
       /\ last'.unsubscribed = {x.id : x \in Subscribers}
       /\ Publishers' = {}
       /\ Subscribers' = {}
       /\ ~active'
       /\ last'.events = <<"endCall">>]_vars

\* C7: once a stream S has been added and a subscriber of S registered,
\* removeStream(S) leaves streams and streamMap without S and the
\* subscriber registry without the subscriber that was mapped to S.
C7_Mapped(s) ==
  {x \in Subscribers : x.sid = s /\ x.id = MapGet(state.streamMap, s)}

C7_RemoveStream ==
  [][(last'.op = "streamDestroyed"
        /\ last'.sid \in DOMAIN state.streams
        /\ C7_Mapped(last'.sid) # {}) =>
       /\ last'.sid \notin DOMAIN state'.streams
       /\ last'.sid \notin DOMAIN state'.streamMap
       /\ C7_Mapped(last'.sid) \cap Subscribers' = {}]_vars

\* the first removeStream of a streamDestroyed found a subscriber to remove
C7_Witness ==
  /\ last.op = "streamDestroyed"
  /\ last.events # << >>
  /\ remote[last.sid] = "gone"
  /\ last.sid \notin DOMAIN state.streams

\* C8: every streamMap entry names a handle that is in the publisher or
\* the subscriber registry, under the kind of its stream.
C8_Registered(k) ==
  \E x \in Publishers \cup Subscribers : x.id = state.streamMap[k] /\ x.sid = k

C8_StreamMapRegistered == \A k \in DOMAIN state.streamMap : C8_Registered(k)

\* C9: every stream id whose streamMap entry names a registered subscriber
\* is a key of streams, also when the stream was destroyed while its
\* subscribe call was outstanding and the call then succeeded.
C9_Tracked ==
  {k \in DOMAIN state.streamMap :
     \E x \in Subscribers : x.id = state.streamMap[k] /\ x.sid = k}

C9_TrackedInStreams == C9_Tracked \subseteq DOMAIN state.streams

C9_Witness ==
  \E k \in C9_Tracked : k \in StreamIds /\ remote[k] = "gone"


\* C10: triggerEvent(E, d) on a registered event E invokes, once each and
\* with (d, E), exactly the callbacks that on(E, cb) added and that no off
\* has removed since: cb1 and cb2 after on(E, cb1) and on(E, cb2), and cb2
\* alone once off(E, cb1) has been called.
C10_Registered(i, e) ==
  \/ e \in DOMAIN BusListeners
  \/ \E k \in 1 .. i - 1 :
       hist.bus[k].op \in {"registerEvents", "triggerEvent"} /\ hist.bus[k].event = e
  \/ \E k \in 1 .. i - 1 :
       /\ hist.bus[k].op = "registerEvents"
       /\ \E n \in 1 .. Len(hist.bus[k].events) : hist.bus[k].events[n] = e

C10_Listening(i, e, cb) ==
  \E j \in 1 .. i - 1 :
    /\ hist.bus[j].op = "on" /\ hist.bus[j].event = e /\ hist.bus[j].cb = cb
    /\ C10_Registered(j, e)
    /\ \A k \in j + 1 .. i - 1 :
         hist.bus[k].op = "off" =>
           /\ ~(hist.bus[k].event = e /\ hist.bus[k].cb = cb)
           /\ ~(hist.bus[k].event = None /\ hist.bus[k].cb = None)

C10_TriggerInvokesListeners ==
  \A i \in 1 .. Len(hist.bus) :
    hist.bus[i].op = "triggerEvent" =>
      LET e == hist.bus[i].event
          expected == {[cb |-> cb, data |-> hist.bus[i].data, event |-> e] :
                         cb \in {c \in Callbacks : C10_Listening(i, e, c)}}
      IN /\ DOMAIN hist.bus[i].calls = expected
         /\ \A c \in expected : hist.bus[i].calls[c] = 1

C10_Witness ==
  /\ Len(hist.bus) = 5
  /\ hist.bus[1] = BusCall("on", "connected", "cb1")
  /\ hist.bus[2] = BusCall("on", "connected", "cb2")
  /\ hist.bus[3].op = "triggerEvent" /\ hist.bus[3].event = "connected"
  /\ Cardinality(DOMAIN hist.bus[3].calls) = 2
  /\ hist.bus[4] = BusCall("off", "connected", "cb1")
  /\ hist.bus[5].op = "triggerEvent" /\ hist.bus[5].event = "connected"
  /\ DOMAIN hist.bus[5].calls = {[cb |-> "cb2", data |-> 5, event |-> "connected"]}


\* C11: triggerEvent on a name that is not registered invokes no callback
\* and leaves the name registered with no callbacks; an on(name, cb) made
\* afterwards attaches cb, and a later triggerEvent(name, d) invokes it.
C11_Unregistered(i) ==
  /\ hist.bus[i].op = "triggerEvent"
  /\ ~C10_Registered(i, hist.bus[i].event)

C11_Removed(k, e, cb) ==
  /\ hist.bus[k].op = "off"
  /\ \/ hist.bus[k].event = e /\ hist.bus[k].cb = cb
     \/ hist.bus[k].event = None /\ hist.bus[k].cb = None

C11_TriggerUnregistered ==
  \A i \in 1 .. Len(hist.bus) :
    C11_Unregistered(i) =>
      LET e == hist.bus[i].event
      IN /\ DOMAIN hist.bus[i].calls = {}
         /\ i = Len(hist.bus) => e \in DOMAIN eventListeners /\ eventListeners[e] = {}
         /\ \A j \in i + 1 .. Len(hist.bus), k \in i + 1 .. Len(hist.bus) :
              (/\ j < k
               /\ hist.bus[j].op = "on" /\ hist.bus[j].event = e
               /\ hist.bus[k].op = "triggerEvent" /\ hist.bus[k].event = e
               /\ \A m \in j + 1 .. k - 1 : ~C11_Removed(m, e, hist.bus[j].cb))
              => [cb |-> hist.bus[j].cb, data |-> hist.bus[k].data, event |-> e]
                   \in DOMAIN hist.bus[k].calls

C11_Witness ==
  /\ Len(hist.bus) = 3
  /\ C11_Unregistered(1) /\ hist.bus[1].event = "custom"
  /\ hist.bus[2] = BusCall("on", "custom", "cb1")
  /\ hist.bus[3].op = "triggerEvent"
  /\ DOMAIN hist.bus[3].calls = {[cb |-> "cb1", data |-> 3, event |-> "custom"]}


\* C12: when publish has succeeded in startCall and a subscribe of the
\* batch to the streams that were already there fails, startCall resolves
\* with the registries as they stand plus the new publisher, and the
\* publisher stays in the publisher registry.
PublisherIds(st) == {x.id : x \in st.publishers.camera \cup st.publishers.screen}

\* publish succeeds in this step and an attempt of the batch fails at once:
\* what startCall passes to subscribe is not a stream object
C12_FailsAtOnce ==
  /\ call.pc = "publishing"
  /\ last'.op = "publish" /\ last'.value # NoId
  /\ autoSubscribe
  /\ \/ call.initialExtra
     \/ \E id \in call.initialIds :
          id \notin DOMAIN state.streams \/ state.streams[id].t # "stream"

\* the provider reports an error for a session.subscribe call of the batch
C12_FailsLater ==
  /\ call.pc = "subscribing" /\ call.publisher # NoId
  /\ last'.op = "subscribeComplete" /\ last'.result = "rejected"
  /\ last'.value \in call.waiting

C12_BatchFailureSwallowed ==
  [][/\ C12_FailsAtOnce =>
          /\ last'.settled = "resolved"
          /\ last'.snapshot = Snapshot(state', last'.value)
          /\ last'.value \in PublisherIds(state')
     /\ C12_FailsLater =>
          /\ last'.settled = "resolved"
          /\ last'.snapshot = Snapshot(state', call.publisher)
          /\ call.publisher \in PublisherIds(state) =>
               call.publisher \in PublisherIds(state')]_vars

C12_Witness ==
  /\ last.op = "subscribeComplete" /\ last.result = "rejected"
  /\ last.settled = "resolved"
  /\ last.snapshot.publisher \in PublisherIds(state)

\* C13: a startCall that resolves has emitted the bus event "startCall"
\* exactly once before resolving, and one that rejects has emitted none.
C13_Emitted ==
  Cardinality({i \in 1 .. Len(last.events) : last.events[i] = "startCall"})

C13_StartCallEvent ==
  /\ last.settled = "resolved" => C13_Emitted = 1
  /\ last.settled # "resolved" => C13_Emitted = 0


\* C14: unsubscribe(subscriber) of a tracked subscriber resolves; by then
\* the subscriber is out of the subscriber registry and session.unsubscribe
\* has been called for it, once.
C14_UnsubscribeResolves ==
  last.op = "unsubscribe" =>
    /\ last.result = "resolved"
    /\ last.value \notin {x.id : x \in Subscribers}
    /\ last.unsubscribed = {last.value}

\* C15: whenever a stream add or remove is announced on the bus, the
\* callbacks of the event find the mutation done: a streamCreated finds the
\* stream in streams, a streamDestroyed (and every event that follows it in
\* the same delivery) finds the stream, its streamMap entry and the
\* subscriber that was mapped to it gone, and an event of a completed
\* subscribe finds the subscriber registered and mapped.
C15_Announced(i) ==
  /\ last'.op = "streamCreated" => last'.seen[i].stream
  /\ last'.op = "streamDestroyed" =>
       /\ ~last'.seen[i].stream
       /\ last'.seen[i].mapped = NoId
       /\ MapGet(state.streamMap, last'.sid) \notin last'.seen[i].subscribers
  /\ last'.op = "subscribeComplete" =>
       /\ last'.seen[i].mapped = last'.value
       /\ last'.value \in last'.seen[i].subscribers

C15_MutationBeforeEvent ==
  [][/\ Len(last'.seen) = Len(last'.events) \/ last'.op \notin
          {"streamCreated", "streamDestroyed"}
     /\ \A i \in 1 .. Len(last'.seen) : C15_Announced(i)]_vars

\* a streamDestroyed was announced (the stream had a registered, mapped
\* subscriber, or the removal would have thrown before the trigger) and its
\* callbacks found the stream and the mapping gone
C15_Witness ==
  /\ last.op = "streamDestroyed"
  /\ last.events = <<"streamDestroyed">>
  /\ Len(last.seen) = 1
  /\ ~last.seen[1].stream
  /\ last.seen[1].mapped = NoId
  /\ last.seen[1].subscribers = {}

\* C16: whenever publish fails, in the creation of the publisher or in
\* session.publish, an `error` event is emitted, the promise fails with the
\* error, and neither the publisher registry nor streamMap changes.
C16_PublishFailure ==
  [][(last'.op \in {"createPublisher", "publish"} /\ last'.error) =>
       /\ last'.events = <<"error">>
       /\ ~last'.threw
       /\ last'.result = "rejected"
       /\ state'.publishers = state.publishers
       /\ state'.streamMap = state.streamMap]_vars

\* C17: configured subscribeOnly, publish() resolves with an empty result
\* without creating a publisher or calling session.publish, and leaves the
\* publisher registry, the subscriber registry, streams and streamMap as
\* they were: no call is ever waiting for a publisher, no publisher is ever
\* registered, and the startCall that calls publish leaves the State alone.
C17_Resolved ==
  publish(subscribeOnly, state) =
    [result |-> "resolved", value |-> NoId, creating |-> FALSE, state |-> state]

C17_SubscribeOnlyPublish ==
  [][subscribeOnly =>
       /\ C17_Resolved
       /\ call'.pc \notin {"creating", "publishing"}
       /\ call'.publisher = NoId
       /\ Publishers' = {}
       /\ last'.op = "startCall" => state' = state]_vars

\* a startCall configured subscribeOnly passed admission, with a stream in
\* the session, and went on without a publisher
C17_Witness ==
  /\ subscribeOnly
  /\ last.op = "startCall"
  /\ last.settled # "rejected"
  /\ call.pc \in {"subscribing", "resolved"}
  /\ DOMAIN state.streams # {}

\* C18: when the provider completes a session.subscribe with an error,
\* subscribe() fails, no subscribed event is emitted, and the subscriber
\* registry, the publisher registry, streams and streamMap are what they
\* were just before the completion callback ran.
C18_Subscribed ==
  {"subscribeToCamera", "subscribeToScreen", "startViewingSharedScreen"}

C18_SubscribeFailure ==
  [][(last'.op = "subscribeComplete" /\ last'.error) =>
       /\ last'.result = "rejected"
       /\ ~last'.threw
       /\ \A i \in 1 .. Len(last'.events) : last'.events[i] \notin C18_Subscribed
       /\ state' = state]_vars

\* a session.subscribe failed while another subscriber was registered and
\* mapped, and the State still holds it
C18_Witness ==
  /\ last.op = "subscribeComplete"
  /\ last.error
  /\ last.result = "rejected"
  /\ Subscribers # {}
  /\ DOMAIN state.streamMap # {}

\* C19: the delivery of a streamCreated calls subscribe() for the new stream
\* if and only if active and autoSubscribe are both true at that moment;
\* while active is false the listener issues no subscribe.
C19_Subscribed == last.result # "none"

C19_AutoSubscribe ==
  last.op = "streamCreated" =>
    /\ C19_Subscribed <=> (active /\ autoSubscribe)
    /\ ~active => last.issued = {} /\ last.value = NoId

\* a streamCreated delivered during a call made the listener issue a
\* session.subscribe for the new stream
C19_Witness ==
  /\ last.op = "streamCreated"
  /\ active
  /\ autoSubscribe
  /\ last.issued # {}
  /\ \E p \in pendingSubs : p.sid = last.sid

\* C20: every streamDestroyed delivered for a stream known to the session,
\* with or without a local subscriber, removes the stream from the State
\* and emits exactly one kind-specific unsubscribed event, preceded by
\* endViewingSharedScreen when the kind is screen.
C20_Events(kind) ==
  IF kind = "screen"
    THEN <<"streamDestroyed", "endViewingSharedScreen", "unsubscribeFromScreen">>
    ELSE <<"streamDestroyed", "unsubscribeFromCamera">>

C20_StreamDestroyed ==
  [][(last'.op = "streamDestroyed" /\ remote[last'.sid] \in Kinds) =>
       /\ last'.sid \notin DOMAIN state'.streams
       /\ last'.sid \notin DOMAIN state'.streamMap
       /\ ~last'.threw
       /\ last'.events = C20_Events(remote[last'.sid])]_vars

\* C21: the policy fields hold the configured values for the whole life of
\* the object: constructed with autoSubscribe false, the field is false and
\* neither the streamCreated listener nor startCall's batch ever issues a
\* subscribe (every session.subscribe comes from a subscribe() call of the
\* application).
C21_PolicyKept ==
  [][/\ autoSubscribe' = AutoSubscribeOff.autoSubscribe
     /\ subscribeOnly' = AutoSubscribeOff.subscribeOnly
     /\ connectionLimit' = AutoSubscribeOff.connectionLimit
     /\ last'.op \in {"streamCreated", "startCall", "publish"} =>
          pendingSubs' = pendingSubs]_vars

\* C22: with autoSubscribe enabled, the batch startCall issues once publish
\* has succeeded targets exactly the ids that were keys of streams when
\* startCall was invoked, and every session.subscribe it issues is for one
\* of them; a stream created while publish is outstanding is subscribed by
\* the streamCreated listener and is no target of the batch.
C22_Invoked ==
  last'.op = "startCall" /\ call'.pc = "creating" =>
    call'.initialIds = DOMAIN state.streams

C22_Batch ==
  last'.op = "publish" /\ ~last'.error /\ autoSubscribe =>
    /\ last'.targets = call.initialIds
    /\ {p.sid : p \in pendingSubs' \ pendingSubs} \subseteq call.initialIds

C22_Listener ==
  (/\ last'.op = "streamCreated"
   /\ call.pc \in {"creating", "publishing"}) =>
    /\ active => last'.issued # {}
    /\ last'.sid \notin call.initialIds
    /\ call' = call

C22_BatchAndListener ==
  [][C22_Invoked /\ C22_Batch /\ C22_Listener]_vars

\* the batch has just subscribed to a stream captured at the invocation
\* while the subscription to a stream created during publish is outstanding
C22_Witness ==
  /\ last.op = "publish"
  /\ autoSubscribe
  /\ \E p \in pendingSubs : p.sid \in last.targets /\ p.id \in call.waiting
  /\ \E p \in pendingSubs : p.sid \in DOMAIN state.streams \ last.targets

\* C23: after disconnect() the publisher registry, the subscriber registry,
\* streamMap and streams are all empty, and the credentials and the session
\* handle of the State are what they were.
C23_Empty(st) ==
  /\ st.publishers.camera = {} /\ st.publishers.screen = {}
  /\ st.subscribers.camera = {} /\ st.subscribers.screen = {}
  /\ DOMAIN st.streamMap = {}
  /\ DOMAIN st.streams = {}
  /\ ~st.streamsExtra

C23_Disconnect ==
  [][last'.op = "disconnect" =>
       /\ C23_Empty(state')
       /\ state'.credentials = state.credentials
       /\ state'.session = state.session
       /\ state'.credentials = "credentials"
       /\ state'.session = "session"]_vars

\* disconnect() during a call that has published and is waiting for its
\* batch, with a stream in the session: the State is empty afterwards
C23_Witness ==
  /\ last.op = "disconnect"
  /\ C23_Empty(state)
  /\ state.session = "session"
  /\ call.pc = "subscribing"
  /\ call.publisher # NoId
  /\ \E s \in StreamIds : remote[s] \in Kinds

\* C24: taking a snapshot of the State (getPubSub() or all(), the all() calls
\* inside subscribe included) modifies nothing: in every reachable state
\* streams holds exactly the streams added by addStream and not removed
\* since, each key with its stream object, and nothing else.
C24_Added == {s \in StreamIds : remote[s] \in Kinds}

C24_StreamsUntouched ==
  /\ DOMAIN state.streams = C24_Added
  /\ \A s \in DOMAIN state.streams : state.streams[s] = StreamVal(remote[s])
  /\ ~state.streamsExtra

\* C25: active is true only between a startCall that succeeded and the next
\* endCall: a startCall that fails, refused at admission or by a failure of
\* publish, leaves active false, and a streamCreated delivered after it
\* makes the listener subscribe to nothing.
C25_Failed ==
  \/ last'.op = "startCall" /\ last'.settled = "rejected"
  \/ last'.op \in {"createPublisher", "publish"} /\ last'.error

C25_ActiveOnlyInCall ==
  [][/\ C25_Failed => ~active'
     /\ (last'.op = "streamCreated" /\ call.pc \in {"rejected", "hung"}) =>
          last'.issued = {} /\ last'.result = "none"]_vars

\* C26: removeStream(S) raises no error and is idempotent: for a stream
\* without a local subscriber (never subscribed, or removed by an earlier
\* removeStream(S) of the same streamDestroyed) it leaves S out of streams
\* and streamMap and leaves both registries as they were.
C26_NoSubscriber(st, s) ==
  CollGet(st.subscribers, "camera", MapGet(st.streamMap, s)) = {}
    /\ CollGet(st.subscribers, "screen", MapGet(st.streamMap, s)) = {}

C26_Removed(r, st, s) ==
  /\ ~r.threw
  /\ s \notin DOMAIN r.st.streams
  /\ s \notin DOMAIN r.st.streamMap
  /\ r.st.subscribers = st.subscribers
  /\ r.st.publishers = st.publishers

C26_RemoveStreamIdempotent ==
  \A s \in StreamIds :
    remote[s] \in Kinds /\ s \in DOMAIN state.streams =>
      LET once == removeStream(state, s, remote[s])
          twice == removeStream(once.st, s, remote[s])
      IN /\ C26_NoSubscriber(state, s) => C26_Removed(once, state, s)
         /\ C26_Removed(twice, once.st, s)
         /\ twice.st = once.st

\* C27: after a startCall that resolved, an endCall, and a second startCall
\* with autoSubscribe enabled, every stream that was in streams at the
\* second invocation and still is has a tracked local subscriber (registered
\* and mapped) at the moment the second startCall resolves.
C27_Tracked(st, s) ==
  \E x \in st.subscribers.camera \cup st.subscribers.screen :
    x.sid = s /\ MapGet(st.streamMap, s) = x.id

C27_Resubscribed ==
  [][(/\ last'.op \in {"publish", "subscribeComplete"}
      /\ last'.settled = "resolved"
      /\ call.rejoin
      /\ autoSubscribe) =>
       \A s \in call.initialIds \cap StreamIds \cap DOMAIN state'.streams :
         C27_Tracked(state', s)]_vars

\* C28: whenever subscribe(stream) resolves through the already-mapped path
\* (streamMap has an entry for the stream, no network test), the value it
\* resolves with is a subscriber of that stream that is in the subscriber
\* registry, never an absent value, also when the entry was written by
\* addPublisher or the subscriber was removed by unsubscribe.
C28_MappedPath ==
  /\ last.op \in {"subscribe", "subscribeOwn", "streamCreated"}
  /\ last.result = "resolved"

C28_MappedValue ==
  C28_MappedPath =>
    \E x \in Subscribers : x.id = last.value /\ x.sid = last.sid

\* C29: a startCall stays pending only while one of the provider calls it
\* issued is outstanding (the creation of the publisher, session.publish, a
\* session.subscribe of its batch), so that it settles once they have all
\* completed.
C29_Outstanding ==
  \/ call.pc \in {"creating", "publishing"}
  \/ call.pc = "subscribing" /\ \E p \in pendingSubs : p.id \in call.waiting

C29_Pending == call.pc \in {"creating", "publishing", "subscribing", "hung"}

C29_StartCallSettles == C29_Pending => C29_Outstanding

\* C30: registerEvents is idempotent: a name that is already registered
\* keeps its callback set with the callbacks attached to it, a name that is
\* not gets an empty set, and registering the same names a second time
\* gives the registry the first registration gave.
C30_Names(record) ==
  IF record.event = None THEN record.events ELSE <<record.event>>

C30_Call == hist'.bus[Len(hist'.bus)]

C30_RegisterIdempotent ==
  [][(Len(hist'.bus) > Len(hist.bus) /\ C30_Call.op = "registerEvents") =>
       LET names == C30_Names(C30_Call)
           set == {names[n] : n \in 1 .. Len(names)}
       IN /\ DOMAIN eventListeners' = DOMAIN eventListeners \cup set
          /\ \A e \in DOMAIN eventListeners : eventListeners'[e] = eventListeners[e]
          /\ \A e \in set \ DOMAIN eventListeners : eventListeners'[e] = {}
          /\ registerEvents(eventListeners', names) = eventListeners'
          /\ registerEvents(eventListeners, names \o names) = eventListeners']_vars

\* a list holding a name with a callback attached and a name not yet
\* registered has just been registered: the callback is still attached
C30_Witness ==
  /\ Len(hist.bus) = 2
  /\ hist.bus[1] = BusCall("on", "connected", "cb1")
  /\ hist.bus[2].op = "registerEvents"
  /\ hist.bus[2].events = <<"custom", "connected">>
  /\ eventListeners["connected"] = {"cb1"}
  /\ eventListeners["custom"] = {}

\* C31: on(name, cb) for a name that is not registered raises nothing and
\* leaves the registry as it was, the name still unregistered; the callback
\* it dropped is invoked by a later trigger of the name only if it was
\* attached again once the name was registered.
C31_Dropped(i) ==
  /\ hist.bus[i].op = "on"
  /\ ~C10_Registered(i, hist.bus[i].event)

C31_NeverInvoked ==
  \A i \in 1 .. Len(hist.bus) :
    C31_Dropped(i) =>
      \A k \in i + 1 .. Len(hist.bus) :
        (/\ hist.bus[k].op = "triggerEvent"
         /\ hist.bus[k].event = hist.bus[i].event
         /\ [cb |-> hist.bus[i].cb, data |-> hist.bus[k].data,
             event |-> hist.bus[k].event] \in DOMAIN hist.bus[k].calls)
        => \E j \in i + 1 .. k - 1 :
             /\ hist.bus[j].op = "on"
             /\ hist.bus[j].event = hist.bus[i].event
             /\ hist.bus[j].cb = hist.bus[i].cb
             /\ C10_Registered(j, hist.bus[j].event)

C31_OnUnregistered ==
  [][/\ (/\ Len(hist'.bus) > Len(hist.bus)
         /\ C30_Call.op = "on"
         /\ C30_Call.event \notin DOMAIN eventListeners) =>
          eventListeners' = eventListeners
     /\ C31_NeverInvoked']_vars

\* the callback dropped by an on() made before the name was registered is
\* not invoked by the trigger that follows the registration
C31_Witness ==
  /\ Len(hist.bus) = 3
  /\ hist.bus[1] = BusCall("on", "custom", "cb1")
  /\ hist.bus[2] = BusCall("registerEvents", "custom", None)
  /\ hist.bus[3].op = "triggerEvent" /\ hist.bus[3].event = "custom"
  /\ DOMAIN hist.bus[3].calls = {}
  /\ eventListeners["custom"] = {}

\* C32: off() with no arguments empties the callback set of every
\* registered event and keeps every name registered: a later trigger of a
\* registered name invokes only callbacks attached after the off(), and an
\* on(name, cb) made after it attaches.
C32_FullClear(i) == hist.bus[i] = BusCall("off", None, None)

C32_AttachedAfter(i, k, e, cb) ==
  \E j \in i + 1 .. k - 1 :
    hist.bus[j].op = "on" /\ hist.bus[j].event = e /\ hist.bus[j].cb = cb

C32_AfterClear ==
  \A i \in 1 .. Len(hist.bus) :
    C32_FullClear(i) =>
      \A k \in i + 1 .. Len(hist.bus) :
        hist.bus[k].op = "triggerEvent" =>
          LET e == hist.bus[k].event
          IN /\ \A c \in DOMAIN hist.bus[k].calls : C32_AttachedAfter(i, k, e, c.cb)
             /\ \A j \in i + 1 .. k - 1 :
                  (/\ hist.bus[j].op = "on" /\ hist.bus[j].event = e
                   /\ C10_Registered(i, e)
                   /\ \A m \in j + 1 .. k - 1 : ~C11_Removed(m, e, hist.bus[j].cb))
                  => [cb |-> hist.bus[j].cb, data |-> hist.bus[k].data, event |-> e]
                       \in DOMAIN hist.bus[k].calls

C32_OffAll ==
  [][/\ (Len(hist'.bus) > Len(hist.bus) /\ C30_Call = BusCall("off", None, None)) =>
          /\ DOMAIN eventListeners' = DOMAIN eventListeners
          /\ \A e \in DOMAIN eventListeners' : eventListeners'[e] = {}
     /\ C32_AfterClear']_vars

\* off() with a callback attached to a registered name; the trigger after
\* it invokes nothing, and the on() after that attaches again
C32_Witness ==
  /\ Len(hist.bus) = 5
  /\ hist.bus[1] = BusCall("on", "connected", "cb1")
  /\ C32_FullClear(2)
  /\ hist.bus[3].op = "triggerEvent" /\ hist.bus[3].event = "connected"
  /\ DOMAIN hist.bus[3].calls = {}
  /\ hist.bus[4] = BusCall("on", "connected", "cb2")
  /\ hist.bus[5].op = "triggerEvent" /\ hist.bus[5].event = "connected"
  /\ DOMAIN hist.bus[5].calls = {[cb |-> "cb2", data |-> 5, event |-> "connected"]}

\* C33: off(event) with a registered name and the callback left out removes
\* nothing: the callback set of that event and of every other event is as
\* it was, and a later trigger of the event invokes every callback that was
\* attached before the off(event) and not removed since.
C33_OffEvent(i) ==
  /\ hist.bus[i].op = "off"
  /\ hist.bus[i].event # None
  /\ hist.bus[i].cb = None
  /\ C10_Registered(i, hist.bus[i].event)

C33_StillInvoked ==
  \A i \in 1 .. Len(hist.bus) :
    C33_OffEvent(i) =>
      \A k \in i + 1 .. Len(hist.bus), cb \in Callbacks :
        (/\ hist.bus[k].op = "triggerEvent"
         /\ hist.bus[k].event = hist.bus[i].event
         /\ C10_Listening(i, hist.bus[i].event, cb)
         /\ \A m \in i + 1 .. k - 1 : ~C11_Removed(m, hist.bus[i].event, cb))
        => [cb |-> cb, data |-> hist.bus[k].data, event |-> hist.bus[k].event]
             \in DOMAIN hist.bus[k].calls

C33_OffWithoutCallback ==
  [][/\ (/\ Len(hist'.bus) > Len(hist.bus)
         /\ C30_Call.op = "off"
         /\ C30_Call.event \in DOMAIN eventListeners
         /\ C30_Call.cb = None) =>
          eventListeners' = eventListeners
     /\ C33_StillInvoked']_vars

\* off(event) with two callbacks attached to the event, and the trigger
\* after it invokes both
C33_Witness ==
  /\ Len(hist.bus) = 4
  /\ hist.bus[1] = BusCall("on", "connected", "cb1")
  /\ hist.bus[2] = BusCall("on", "connected", "cb2")
  /\ hist.bus[3] = BusCall("off", "connected", None)
  /\ hist.bus[4].op = "triggerEvent" /\ hist.bus[4].event = "connected"
  /\ Cardinality(DOMAIN hist.bus[4].calls) = 2
  /\ eventListeners["connected"] = {"cb1", "cb2"}

====
